---- MODULE Spec2Model ----
(***************************************************************************)
(* Electron-phonon FCI of pygfn (pygfn/eph/_fci.py, pygfn/eph/fci.py).     *)
(*                                                                         *)
(* Tensors are flat row-major arrays (functions on 0..size-1) with a shape *)
(* kept beside them, as numpy keeps them; reshape, transpose, hstack and   *)
(* slicing are index arithmetic on the flat position.                      *)
(*                                                                         *)
(* Amplitudes are exact numbers of the form  sum_r x[r] * sqrt(r)  with    *)
(* integer x[r] and r ranging over the square-free radicands Rads, so that *)
(* the ladder factors numpy.sqrt(numpy.arange(1, nph_max + 1)) are exact.  *)
(* Floating-point rounding is not modelled.                                *)
(*                                                                         *)
(* The electronic engine fci_obj (pyscf.fci.direct_spin1) is modelled in   *)
(* the sectors with at most one electron per spin, where a string is the   *)
(* site of the electron and contract_1e / contract_2e / make_hdiag are     *)
(* exact.                                                                  *)
(***************************************************************************)
EXTENDS Integers, Sequences, FiniteSets, TLC

\* ------------------------------------------------------------------ bounds
NSite == 2
MaxNmode == 2
MaxNph == 2
MaxCycle == 2
MaxSize == 36
NoiseLevels == 2

\* 1.0 / noise for the default noise = 1e-6 of kernel
OnePerNoise == 1000000

None == "None"

\* --------------------------------------------------------- exact numbers
RECURSIVE GCD(_, _)
GCD(a, b) == IF b = 0 THEN a ELSE GCD(b, a % b)

Max(a, b) == IF a >= b THEN a ELSE b

IsPrime(p) == p >= 2 /\ \A d \in 2..(p - 1) : p % d # 0

RECURSIVE PrimeProduct(_)
PrimeProduct(n) ==
    IF n < 2 THEN 1
    ELSE (IF IsPrime(n) THEN n ELSE 1) * PrimeProduct(n - 1)

IsSquareFree(d) == \A q \in 2..d : d % (q * q) # 0

\* radicands of the products of ladder factors sqrt(1) .. sqrt(MaxNph)
Rads == {d \in 1..PrimeProduct(MaxNph) :
            IsSquareFree(d) /\ PrimeProduct(MaxNph) % d = 0}

\* k = SqrtCoef(k)^2 * SqFreePart(k)
SqrtCoef(k) == CHOOSE s \in 1..k : k % (s * s) = 0
                   /\ \A t \in (s + 1)..k : k % (t * t) # 0
SqFreePart(k) == k \div (SqrtCoef(k) * SqrtCoef(k))

\* sqrt(r) * sqrt(k) = GCD(r, k) * sqrt(RadMul(r, k)) for square-free r, k
RadMul(r, k) == (r * k) \div (GCD(r, k) * GCD(r, k))

NZero == [r \in Rads |-> 0]
NInt(i) == [r \in Rads |-> IF r = 1 THEN i ELSE 0]
NAdd(x, y) == [r \in Rads |-> x[r] + y[r]]
NScale(i, x) == [r \in Rads |-> i * x[r]]

\* numpy.sqrt(k) * x
NMulSqrt(k, x) ==
    LET s == SqrtCoef(k)
        q == SqFreePart(k)
    IN  [r \in Rads |-> s * GCD(RadMul(r, q), q) * x[RadMul(r, q)]]

\* sum of f[0] .. f[n-1]
RECURSIVE NSum(_, _)
NSum(f, n) == IF n = 0 THEN NZero ELSE NAdd(NSum(f, n - 1), f[n - 1])

\* ----------------------------------------------------------------- shapes
RECURSIVE Factorial(_)
Factorial(n) == IF n <= 0 THEN 1 ELSE n * Factorial(n - 1)

\* pyscf.fci.cistring.num_strings
num_strings(n, m) ==
    IF m < 0 \/ m > n THEN 0
    ELSE Factorial(n) \div (Factorial(n - m) * Factorial(m))

make_shape(nsite, nelec, nmode, nph_max) ==
    LET na == num_strings(nsite, nelec[1])
        nb == num_strings(nsite, nelec[2])
    IN  <<na, nb>> \o [k \in 1..nmode |-> nph_max + 1]

\* numpy.prod(shape[from:])
RECURSIVE ProdFrom(_, _)
ProdFrom(shape, from) ==
    IF from > Len(shape) THEN 1 ELSE shape[from] * ProdFrom(shape, from + 1)

Size(shape) == ProdFrom(shape, 1)
Flat(shape) == 0..(Size(shape) - 1)

\* row-major stride of phonon axis alph (axis 2 + alph of the tensor)
Stride(shape, alph) == ProdFrom(shape, alph + 4)

\* number of phonon configurations, c.reshape(na * nb, -1).shape[1]
NCol(shape) == ProdFrom(shape, 3)

\* index of flat position i along phonon axis alph
Occ(i, shape, alph) == (i \div Stride(shape, alph)) % shape[alph + 3]

\* pyscf.fci.direct_ep.slices_for: positions whose axis 2 + alph holds nph
slices_for(shape, alph, nph) == {i \in Flat(shape) : Occ(i, shape, alph) = nph}
slices_for_cre(shape, alph, nph) == slices_for(shape, alph, nph + 1)

\* faulty variant: the accumulator starts from numpy.ones_like
TOnes(shape) == [i \in Flat(shape) |-> NInt(1)]

TZero(shape) == [i \in Flat(shape) |-> NZero]
TAdd(x, y) == [i \in DOMAIN x |-> NAdd(x[i], y[i])]
TScale(a, x) == [i \in DOMAIN x |-> NScale(a, x[i])]

\* faulty variant: factors one entry too long, numpy.arange(1, nph_max + 2)
factors_too_long(nph_max) == [n \in 0..nph_max |-> n + 1]

\* radicands of factors = numpy.sqrt(numpy.arange(1, nph_max + 1)),
\* indexed as enumerate(factors) indexes them
factors(nph_max) == [n \in 0..(nph_max - 1) |-> n + 1]
NFactors(nph_max) == Cardinality(DOMAIN factors(nph_max))

\* dst[sd] += src[ss] * sqrt(k), sd and ss slices of one phonon axis
AddSlice(dst, sd, src, ss, k) ==
    IF sd = {} \/ ss = {} THEN dst
    ELSE LET off == (CHOOSE j \in ss : \A l \in ss : j <= l)
                    - (CHOOSE j \in sd : \A l \in sd : j <= l)
         IN  [i \in DOMAIN dst |->
                IF i \in sd THEN NAdd(dst[i], NMulSqrt(k, src[i + off]))
                ELSE dst[i]]

\* ------------------------------------------------- electronic engine
\* pyscf.fci.direct_spin1.contract_1e on one column (strings of 0 or 1
\* electron per spin): new[a, b] = sum_i f[a, i] c[i, b] + sum_j f[b, j] c[a, j]
contract_1e(f1e, col, nsite, nelec) ==
    LET na == num_strings(nsite, nelec[1])
        nb == num_strings(nsite, nelec[2])
    IN  [e \in 0..(na * nb - 1) |->
           LET a == e \div nb
               b == e % nb
           IN  NAdd(IF nelec[1] = 1
                    THEN NSum([i \in 0..(na - 1) |->
                                 NScale(f1e[<<a, i>>], col[i * nb + b])], na)
                    ELSE NZero,
                    IF nelec[2] = 1
                    THEN NSum([j \in 0..(nb - 1) |->
                                 NScale(f1e[<<b, j>>], col[a * nb + j])], nb)
                    ELSE NZero)]

\* pyscf.fci.direct_spin1.absorb_h1e: the folded two-body operator
absorb_h1e(h1e, eri, nsite, nelec) == [h1e |-> h1e, eri |-> eri]

\* pyscf.fci.direct_spin1.contract_2e with the folded operator: H_e c
contract_2e(h2e, col, nsite, nelec) ==
    LET na == num_strings(nsite, nelec[1])
        nb == num_strings(nsite, nelec[2])
        one == contract_1e(h2e.h1e, col, nsite, nelec)
    IN  [e \in 0..(na * nb - 1) |->
           LET a == e \div nb
               b == e % nb
           IN  IF nelec[1] = 1 /\ nelec[2] = 1
               THEN NAdd(one[e],
                         NSum([k \in 0..(na * nb - 1) |->
                                 NScale(h2e.eri[<<a, k \div nb, b, k % nb>>], col[k])],
                              na * nb))
               ELSE one[e]]

\* pyscf.fci.direct_spin1.make_hdiag: the diagonal of H_e, flat (na * nb)
fci_make_hdiag(h1e, eri, nsite, nelec) ==
    LET na == num_strings(nsite, nelec[1])
        nb == num_strings(nsite, nelec[2])
    IN  [e \in 0..(na * nb - 1) |->
           LET a == e \div nb
               b == e % nb
           IN  (IF nelec[1] = 1 THEN h1e[<<a, a>>] ELSE 0)
               + (IF nelec[2] = 1 THEN h1e[<<b, b>>] ELSE 0)
               + (IF nelec[1] = 1 /\ nelec[2] = 1 THEN eri[<<a, a, b, b>>] ELSE 0)]

\* c.reshape(na * nb, -1)[:, p]
Column(c, shape, p) ==
    [e \in 0..(shape[1] * shape[2] - 1) |-> c[e * NCol(shape) + p]]

\* faulty variant: the list of columns reshaped without the transpose
FromColumns_untransposed(hc, shape) ==
    [i \in Flat(shape) |-> hc[i \div (shape[1] * shape[2])][i % (shape[1] * shape[2])]]

\* numpy.asarray(hc).transpose(1, 2, 0).reshape(shape) of the list hc[p]
FromColumns(hc, shape) ==
    [i \in Flat(shape) |-> hc[i % NCol(shape)][i \div NCol(shape)]]

contract_h1e(h1e, v, nsite, nelec, nmode, nph_max) ==
    LET shape == make_shape(nsite, nelec, nmode, nph_max)
        hc == [p \in 0..(NCol(shape) - 1) |->
                 contract_1e(h1e, Column(v, shape, p), nsite, nelec)]
    IN  FromColumns(hc, shape)

contract_h2e(h2e, v, nsite, nelec, nmode, nph_max) ==
    LET shape == make_shape(nsite, nelec, nmode, nph_max)
        hc == [p \in 0..(NCol(shape) - 1) |->
                 contract_2e(h2e, Column(v, shape, p), nsite, nelec)]
    IN  FromColumns(hc, shape)

\* --------------------------------------------- electron-phonon coupling
\* h1e1p[..., alph]
Pick(h1e1p, alph) ==
    [pq \in (0..(h1e1p.shape[1] - 1)) \X (0..(h1e1p.shape[2] - 1)) |->
        h1e1p.at[<<pq[1], pq[2], alph>>]]

\* faulty variant: the annihilation update hc[s0] += hc_e[s1] * f is missing
Ladder1e1p_cre_only(hc_, hce, shape, a, n, k) ==
    AddSlice(hc_, slices_for_cre(shape, a, n), hce, slices_for(shape, a, n), k)

\* one pass of the loop body of contract_h1e1p with f = sqrt(k):
\*   hc[s1] += hc_e[s0] * f ; hc[s0] += hc_e[s1] * f
Ladder1e1p(hc_, hce, shape, a, n, k) ==
    LET s0 == slices_for(shape, a, n)
        s1 == slices_for_cre(shape, a, n)
    IN  AddSlice(AddSlice(hc_, s1, hce, s0, k), s0, hce, s1, k)

\* lines 67-70: the electronic contraction with h1e1p[..., alph] of every
\* phonon column
ElecOfMode(h1e1p, v, nsite, nelec, nmode, nph_max, a) ==
    contract_h1e(Pick(h1e1p, a), v, nsite, nelec, nmode, nph_max)

\* hc after the first k passes of "for alph: for nph, f in enumerate(factors)"
RECURSIVE Loop1e1p(_, _, _, _, _, _, _)
Loop1e1p(k, h1e1p, v, nsite, nelec, nmode, nph_max) ==
    LET shape == make_shape(nsite, nelec, nmode, nph_max)
        nf == NFactors(nph_max)
    IN  IF k = 0 THEN TZero(shape)
        ELSE Ladder1e1p(Loop1e1p(k - 1, h1e1p, v, nsite, nelec, nmode, nph_max),
                        ElecOfMode(h1e1p, v, nsite, nelec, nmode, nph_max,
                                   (k - 1) \div nf),
                        shape, (k - 1) \div nf, (k - 1) % nf,
                        factors(nph_max)[(k - 1) % nf])

contract_h1e1p(h1e1p, v, nsite, nelec, nmode, nph_max) ==
    Loop1e1p(nmode * NFactors(nph_max), h1e1p, v, nsite, nelec, nmode, nph_max)

\* ------------------------------------------------- phonon-phonon coupling
\* t1[(alph,) + s0] += c[s1] * f
Lower1p(t, v, shape, a, n, k) ==
    [t EXCEPT ![a] = AddSlice(t[a], slices_for(shape, a, n),
                              v, slices_for_cre(shape, a, n), k)]

\* numpy.zeros((nmode,) + cishape)
T1Zero(shape, nmode) == [a \in 0..(nmode - 1) |-> TZero(shape)]

RECURSIVE LoopLower(_, _, _, _, _)
LoopLower(k, v, shape, nmode, nph_max) ==
    LET nf == NFactors(nph_max)
    IN  IF k = 0 THEN T1Zero(shape, nmode)
        ELSE Lower1p(LoopLower(k - 1, v, shape, nmode, nph_max), v, shape,
                     (k - 1) \div nf, (k - 1) % nf, factors(nph_max)[(k - 1) % nf])

\* lib.dot(h1p, t1.reshape(nmode, -1)).reshape(t1.shape)
Mix1p(h1p, t, shape, nmode) ==
    [a \in 0..(nmode - 1) |->
        [i \in Flat(shape) |->
            NSum([beta \in 0..(nmode - 1) |->
                    NScale(h1p.at[<<a, beta>>], t[beta][i])], nmode)]]

\* hc[s1] += t1[(alph,) + s0] * f
Raise1p(hc_, t, shape, a, n, k) ==
    AddSlice(hc_, slices_for_cre(shape, a, n), t[a], slices_for(shape, a, n), k)

RECURSIVE LoopRaise(_, _, _, _)
LoopRaise(k, t, shape, nph_max) ==
    LET nf == NFactors(nph_max)
    IN  IF k = 0 THEN TZero(shape)
        ELSE Raise1p(LoopRaise(k - 1, t, shape, nph_max), t, shape,
                     (k - 1) \div nf, (k - 1) % nf, factors(nph_max)[(k - 1) % nf])

contract_h1p(h1p, v, nsite, nelec, nmode, nph_max) ==
    LET cishape == make_shape(nsite, nelec, nmode, nph_max)
        nf == NFactors(nph_max)
        lowered == LoopLower(nmode * nf, v, cishape, nmode, nph_max)
        mixed == Mix1p(h1p, lowered, cishape, nmode)
    IN  LoopRaise(nmode * nf, mixed, cishape, nph_max)

\* --------------------------------------------------------- preconditioner
\* numpy.hstack([hdiag_e] * (nph_max + 1) ** nmode).reshape(shape):
\* row a of the stacked (na, nb * P) array repeats row a of hdiag_e P times
HStack(hdiag_e, shape) ==
    LET nb == shape[2]
        width == nb * NCol(shape)
    IN  [i \in Flat(shape) |-> hdiag_e[(i \div width) * nb + ((i % width) % nb)]]

\* hdiag[s0] += nph + 1 for s0 the slice of axis 2 + alph at nph
RECURSIVE LoopHdiag(_, _, _, _)
LoopHdiag(k, hdiag, shape, nph_max) ==
    IF k = 0 THEN hdiag
    ELSE LET alph == (k - 1) \div (nph_max + 1)
             nph  == (k - 1) % (nph_max + 1)
             prev == LoopHdiag(k - 1, hdiag, shape, nph_max)
         IN  [i \in Flat(shape) |->
                IF i \in slices_for(shape, alph, nph) THEN prev[i] + nph + 1
                ELSE prev[i]]

make_hdiag(h1e, eri, h1e1p, h1p, nsite, nelec, nmode, nph_max) ==
    LET shape == make_shape(nsite, nelec, nmode, nph_max)
        hdiag_e == fci_make_hdiag(h1e, eri, nsite, nelec)
    IN  LoopHdiag(nmode * (nph_max + 1), HStack(hdiag_e, shape), shape, nph_max)

\* ------------------------------------------------------------------- hop
\* exceptions raised inside a hop call, in the order the code meets them
hop_raises(h1e1p, h1p, nmode) ==
    IF nmode > h1e1p.shape[3] THEN "IndexError"        \* h1e1p[..., alph]
    ELSE IF nmode = 0 THEN "ValueError"                \* t1.reshape(0, -1)
    ELSE IF h1p.shape[2] # nmode THEN "AssertionError" \* lib.dot(h1p, t1)
    ELSE IF h1p.shape[1] # nmode THEN "ValueError"     \* .reshape(t1.shape)
    ELSE None

hop(h1e, eri, h1e1p, h1p, v, nsite, nelec, nmode, nph_max) ==
    LET h2e == absorb_h1e(h1e, eri, nsite, nelec)
    IN  TAdd(TAdd(contract_h2e(h2e, v, nsite, nelec, nmode, nph_max),
                  contract_h1e1p(h1e1p, v, nsite, nelec, nmode, nph_max)),
             contract_h1p(h1p, v, nsite, nelec, nmode, nph_max))

\* ------------------------------------------------------ exact products
RECURSIVE SumOver(_, _)
SumOver(S, f) ==
    IF S = {} THEN 0
    ELSE LET e == CHOOSE e \in S : TRUE IN f[e] + SumOver(S \ {e}, f)

NMul(x, y) ==
    [r \in Rads |->
        SumOver(Rads, [r1 \in Rads |->
            x[r1] * y[RadMul(r, r1)] * GCD(r1, RadMul(r, r1))])]

\* numpy.dot of two flattened tensors
Dot(x, y) == NSum([i \in DOMAIN x |-> NMul(x[i], y[i])], Cardinality(DOMAIN x))

\* ------------------------------------------------- Hamiltonian parameters
Sites(nsite) == 0..(nsite - 1)
Abs(n) == IF n < 0 THEN -n ELSE n

\* h1e of the chain: hopping -1 between neighbours, site energy eps * p
H1eChain(nsite, eps) ==
    [pq \in Sites(nsite) \X Sites(nsite) |->
        IF Abs(pq[1] - pq[2]) = 1 THEN -1
        ELSE IF pq[1] = pq[2] THEN eps * pq[1] ELSE 0]

\* eri[p, p, p, p] = u
EriHubbard(nsite, u) ==
    [pqrs \in Sites(nsite) \X Sites(nsite) \X Sites(nsite) \X Sites(nsite) |->
        IF pqrs[1] = pqrs[2] /\ pqrs[2] = pqrs[3] /\ pqrs[3] = pqrs[4] THEN u ELSE 0]

\* h1e1p of shape (nsite, nsite, m): g on [p, p, p], t on [p, p + 1, .] and,
\* when sym, on [p + 1, p, .]
H1e1p(nsite, m, g, t, sym) ==
    [shape |-> <<nsite, nsite, m>>,
     at |-> [pqa \in Sites(nsite) \X Sites(nsite) \X (0..(m - 1)) |->
               IF pqa[1] = pqa[2] THEN (IF pqa[1] = pqa[3] THEN g ELSE 0)
               ELSE IF pqa[2] = pqa[1] + 1 THEN t
               ELSE IF pqa[1] = pqa[2] + 1 /\ sym THEN t
               ELSE 0]]

\* h1p of shape (r, c): w on the diagonal, k above it and, when sym, below it
H1p(r, c, w, k, sym) ==
    [shape |-> <<r, c>>,
     at |-> [ab \in (0..(r - 1)) \X (0..(c - 1)) |->
               IF ab[1] = ab[2] THEN w
               ELSE IF ab[2] = ab[1] + 1 THEN k
               ELSE IF ab[1] = ab[2] + 1 /\ sym THEN k
               ELSE 0]]

\* the Hamiltonians the model runs: the Hubbard-Holstein chain of __main__,
\* a chain with site energies and off-site coupling, the uncoupled limits,
\* and chains with an asymmetric h1p or h1e1p
Hamiltonians(nsite, nmode) ==
    { [h1e |-> H1eChain(nsite, 0), eri |-> EriHubbard(nsite, 2),
       h1e1p |-> H1e1p(nsite, nmode, 1, 0, TRUE), h1p |-> H1p(nmode, nmode, 2, 1, TRUE)],
      [h1e |-> H1eChain(nsite, 1), eri |-> EriHubbard(nsite, 1),
       h1e1p |-> H1e1p(nsite, nmode, 1, 2, TRUE), h1p |-> H1p(nmode, nmode, 1, -1, TRUE)],
      [h1e |-> H1eChain(nsite, 1), eri |-> EriHubbard(nsite, 2),
       h1e1p |-> H1e1p(nsite, nmode, 0, 0, TRUE), h1p |-> H1p(nmode, nmode, 0, 0, TRUE)],
      [h1e |-> H1eChain(nsite, 1), eri |-> EriHubbard(nsite, 2),
       h1e1p |-> H1e1p(nsite, nmode, 0, 0, TRUE), h1p |-> H1p(nmode, nmode, 2, 1, TRUE)],
      [h1e |-> H1eChain(nsite, 0), eri |-> EriHubbard(nsite, 2),
       h1e1p |-> H1e1p(nsite, nmode, 1, 0, TRUE), h1p |-> H1p(nmode, nmode, 2, 1, FALSE)],
      [h1e |-> H1eChain(nsite, 0), eri |-> EriHubbard(nsite, 2),
       h1e1p |-> H1e1p(nsite, nmode, 1, 1, FALSE), h1p |-> H1p(nmode, nmode, 2, 1, TRUE)] }

\* sectors with at most one electron per spin
Sectors == {<<1, 0>>, <<0, 1>>, <<1, 1>>}

\* the calls the model makes: every sector, mode count, truncation and
\* Hamiltonian whose composite tensor has at most MaxSize entries
Params(nmodes, nphs) ==
    UNION { { [nsite |-> NSite, nelec |-> g[1], nmode |-> g[2], nph_max |-> g[3],
               h1e |-> h.h1e, eri |-> h.eri, h1e1p |-> h.h1e1p, h1p |-> h.h1p] :
              h \in Hamiltonians(NSite, g[2]) } :
            g \in {t \in Sectors \X nmodes \X nphs :
                     Size(make_shape(NSite, t[1], t[2], t[3])) <= MaxSize} }

ShapeOf(p) == make_shape(p.nsite, p.nelec, p.nmode, p.nph_max)

\* composite vectors: unit vectors and two dense vectors
Unit(shape, k) == [i \in Flat(shape) |-> NInt(IF i = k THEN 1 ELSE 0)]
Ramp(shape) == [i \in Flat(shape) |-> NInt(i + 1)]
Wave(shape) == [i \in Flat(shape) |-> NInt(((i * i + 1) % 3) - 1)]

\* ------------------------------------------------------------------ state
VARIABLES
    pc,        \* position of the running call
    prm,       \* nsite, nelec, nmode, nph_max, h1e, eri, h1e1p, h1p of the call
    v1, v2,    \* composite vectors handed to hop
    ab,        \* scalars <<a, b>>
    res,       \* results returned so far
    c,         \* input tensor of the contractor being stepped
    alph, nph, \* loop counters of the contractor
    hc,        \* accumulator of the contractor
    hc_e,      \* electronic contraction of the current mode (contract_h1e1p)
    t1,        \* lowered / mixed tensors (contract_h1p)
    touched,   \* slices read and written by the ladder loops so far
    ci0,       \* initial guess of kernel
    rnd,       \* the arrays numpy.random.random returned to kernel
    ncall,     \* hop calls made by the eigensolver
    err,       \* exception raised and the phase it was raised in
    ene,       \* eigenvalue returned by kernel
    obj,       \* fields of the WithPhonon object
    sane       \* outcome of _check_sanity

vars == <<pc, prm, v1, v2, ab, res, c, alph, nph, hc, hc_e, t1, touched,
          ci0, rnd, ncall, err, ene, obj, sane>>

hopVars == <<v1, v2, ab, res>>
ladVars == <<c, alph, nph, hc, hc_e, t1, touched>>
kerVars == <<ci0, rnd, ncall, err, ene>>
sanVars == <<obj, sane>>

HopIdle == v1 = None /\ v2 = None /\ ab = None /\ res = None
LadIdle == /\ c = None /\ alph = 0 /\ nph = 0 /\ hc = None /\ hc_e = None
           /\ t1 = None /\ touched = {}
KerIdle == ci0 = None /\ rnd = None /\ ncall = 0 /\ err = None /\ ene = None
SanIdle == obj = None /\ sane = None

\* ------------------------------------------- hop and make_hdiag as calls
\* v1: the first and last unit vectors and a dense vector; v2 and <<a, b>>
Inputs(shape) ==
    { [v1 |-> x, v2 |-> y.v, ab |-> y.ab] :
      x \in {Unit(shape, 0), Unit(shape, Size(shape) - 1), Ramp(shape)},
      y \in {[v |-> Ramp(shape), ab |-> <<2, -3>>],
             [v |-> Wave(shape), ab |-> <<1, 3>>]} }

InitHop ==
    /\ pc = "hop"
    /\ prm \in Params(1..MaxNmode, 0..MaxNph)
    /\ \E in \in Inputs(ShapeOf(prm)) : v1 = in.v1 /\ v2 = in.v2 /\ ab = in.ab
    /\ res = None
    /\ LadIdle /\ KerIdle /\ SanIdle

Hop(v) == hop(prm.h1e, prm.eri, prm.h1e1p, prm.h1p, v,
              prm.nsite, prm.nelec, prm.nmode, prm.nph_max)

\* hop(v1), hop(v2) and hop(a * v1 + b * v2)
CallHop ==
    /\ pc = "hop"
    /\ res' = [hv1 |-> Hop(v1), hv2 |-> Hop(v2),
               hlin |-> Hop(TAdd(TScale(ab[1], v1), TScale(ab[2], v2)))]
    /\ pc' = "make_hdiag"
    /\ UNCHANGED <<prm, v1, v2, ab, ladVars, kerVars, sanVars>>

CallMakeHdiag ==
    /\ pc = "make_hdiag"
    /\ res' = [hv1 |-> res.hv1, hv2 |-> res.hv2, hlin |-> res.hlin,
               hdiag |-> make_hdiag(prm.h1e, prm.eri, prm.h1e1p, prm.h1p,
                                    prm.nsite, prm.nelec, prm.nmode, prm.nph_max)]
    /\ pc' = "done"
    /\ UNCHANGED <<prm, v1, v2, ab, ladVars, kerVars, sanVars>>

NextHop == CallHop \/ CallMakeHdiag

SpecHop == InitHop /\ [][NextHop]_vars

\* ------------------------------------------------- properties of hop
Called == pc \in {"make_hdiag", "done"}

SymH1p(h) == \A ij \in DOMAIN h.at : h.at[ij] = h.at[<<ij[2], ij[1]>>]
SymH1e1p(h) == \A pqa \in DOMAIN h.at : h.at[pqa] = h.at[<<pqa[2], pqa[1], pqa[3]>>]
SymH1e(h) == \A pq \in DOMAIN h : h[pq] = h[<<pq[2], pq[1]>>]
SymEri(g) == \A t \in DOMAIN g : g[t] = g[<<t[2], t[1], t[4], t[3]>>]
SymmetricInput ==
    SymH1p(prm.h1p) /\ SymH1e1p(prm.h1e1p) /\ SymH1e(prm.h1e) /\ SymEri(prm.eri)

\* C1: with a symmetric h1p, an h1e1p symmetric in its site indices and a
\* symmetric electronic Hamiltonian, dot(v1, hop(v2)) = dot(hop(v1), v2).
C1_HopSymmetric ==
    (Called /\ SymmetricInput) => Dot(v1, res.hv2) = Dot(res.hv1, v2)

\* C1 witness: a symmetric two-mode problem with mode mixing and coupling in
\* which both sides of the identity are a nonzero number
C1_Witness ==
    /\ Called /\ SymmetricInput
    /\ prm.nmode = 2 /\ prm.nph_max = 2 /\ prm.nelec = <<1, 1>>
    /\ prm.h1p.at[<<0, 1>>] # 0 /\ prm.h1e1p.at[<<0, 1, 0>>] # 0
    /\ Dot(v1, res.hv2) # NZero
    /\ \E r \in Rads : r # 1 /\ Dot(v1, res.hv2)[r] # 0

\* C2: hop(a * v1 + b * v2) = a * hop(v1) + b * hop(v2).
C2_HopLinear ==
    Called => res.hlin = TAdd(TScale(ab[1], res.hv1), TScale(ab[2], res.hv2))

\* C2 witness: a combination of two different vectors with a nonzero image
C2_Witness ==
    /\ Called /\ v1 # v2 /\ prm.nmode = 2 /\ prm.nph_max = 2
    /\ prm.h1p.at[<<0, 1>>] # 0 /\ prm.h1e1p.at[<<0, 0, 0>>] # 0
    /\ res.hlin # TZero(ShapeOf(prm))
    /\ res.hv1 # TZero(ShapeOf(prm)) /\ res.hv2 # TZero(ShapeOf(prm))

ZeroH1e1p == \A pqa \in DOMAIN prm.h1e1p.at : prm.h1e1p.at[pqa] = 0
IsUnit(v, k) == v = Unit(ShapeOf(prm), k)

\* C4: when h1e1p is zero, entry i of make_hdiag is dot(e_i, hop(e_i)).
C4_DiagonalConsistent ==
    (pc = "done" /\ ZeroH1e1p) =>
        \A k \in Flat(ShapeOf(prm)) :
            IsUnit(v1, k) => NInt(res.hdiag[k]) = Dot(v1, res.hv1)

\* sum over the modes of (occupation + 1) at flat position i
RECURSIVE Penalty(_, _, _)
Penalty(i, shape, nmode) ==
    IF nmode = 0 THEN 0
    ELSE Occ(i, shape, nmode - 1) + 1 + Penalty(i, shape, nmode - 1)

\* C5: the entry of make_hdiag at (a, b, n_1, ..., n_nmode) is
\* hdiag_e[a, b] + sum over the modes of (n_mode + 1).
C5_DiagonalBroadcast ==
    pc = "done" =>
        \A i \in Flat(ShapeOf(prm)) :
            res.hdiag[i] =
                fci_make_hdiag(prm.h1e, prm.eri, prm.nsite, prm.nelec)
                    [i \div NCol(ShapeOf(prm))]
                + Penalty(i, ShapeOf(prm), prm.nmode)

\* ------------------------- contract_h1e1p and contract_h1p, pass by pass
Shape == ShapeOf(prm)

\* a ladder access: the occupation read (src) and written (dst) on axis mode
Access(fn, op, n_src, n_dst) ==
    [fn |-> fn, op |-> op, mode |-> alph, src |-> n_src, dst |-> n_dst]

InitLadder ==
    /\ pc = "contract_h1e1p"
    /\ prm \in Params(1..MaxNmode, 0..MaxNph)
    /\ v1 \in {Unit(Shape, Size(Shape) - 1), Ramp(Shape), Wave(Shape)}
    /\ c = v1
    /\ res = [h1e1p |-> None, h1p |-> None]
    /\ v2 = None /\ ab = None
    /\ alph = 0 /\ nph = 0 /\ hc = None /\ hc_e = None /\ t1 = None
    /\ touched = {}
    /\ KerIdle /\ SanIdle

\* lines 56-65: hc = numpy.zeros_like(c)
Enter1e1p ==
    /\ pc = "contract_h1e1p"
    /\ hc' = TZero(Shape)
    /\ alph' = 0 /\ nph' = 0
    /\ pc' = "h1e1p_for_alph"
    /\ UNCHANGED <<prm, hopVars, c, hc_e, t1, touched, kerVars, sanVars>>

\* lines 66-70: the next mode's hc_e
Mode1e1p ==
    /\ pc = "h1e1p_for_alph"
    /\ alph < prm.nmode
    /\ hc_e' = ElecOfMode(prm.h1e1p, c, prm.nsite, prm.nelec, prm.nmode,
                          prm.nph_max, alph)
    /\ nph' = 0
    /\ pc' = "h1e1p_for_nph"
    /\ UNCHANGED <<prm, hopVars, c, alph, hc, t1, touched, kerVars, sanVars>>

\* lines 72-77: one pass of the ladder loop
Step1e1p ==
    /\ pc = "h1e1p_for_nph"
    /\ nph \in DOMAIN factors(prm.nph_max)
    /\ hc' = Ladder1e1p(hc, hc_e, Shape, alph, nph, factors(prm.nph_max)[nph])
    /\ touched' = touched \cup {Access("contract_h1e1p", "cre", nph, nph + 1),
                                Access("contract_h1e1p", "des", nph + 1, nph)}
    /\ nph' = nph + 1
    /\ UNCHANGED <<pc, prm, hopVars, c, alph, hc_e, t1, kerVars, sanVars>>

\* enumerate(factors) is exhausted
Done1e1p ==
    /\ pc = "h1e1p_for_nph"
    /\ nph \notin DOMAIN factors(prm.nph_max)
    /\ alph' = alph + 1
    /\ pc' = "h1e1p_for_alph"
    /\ UNCHANGED <<prm, hopVars, c, nph, hc, hc_e, t1, touched, kerVars, sanVars>>

\* line 79: return hc.reshape(shape)
Return1e1p ==
    /\ pc = "h1e1p_for_alph"
    /\ alph = prm.nmode
    /\ res' = [res EXCEPT !.h1e1p = hc]
    /\ pc' = "contract_h1p"
    /\ UNCHANGED <<prm, v1, v2, ab, ladVars, kerVars, sanVars>>

\* lines 83-88
Enter1p ==
    /\ pc = "contract_h1p"
    /\ hc' = TZero(Shape)
    /\ t1' = T1Zero(Shape, prm.nmode)
    /\ alph' = 0 /\ nph' = 0
    /\ hc_e' = None
    /\ pc' = "h1p_lower"
    /\ UNCHANGED <<prm, hopVars, c, touched, kerVars, sanVars>>

\* lines 90-94: one pass of the lowering loop
StepLower1p ==
    /\ pc = "h1p_lower"
    /\ alph < prm.nmode
    /\ nph \in DOMAIN factors(prm.nph_max)
    /\ t1' = Lower1p(t1, c, Shape, alph, nph, factors(prm.nph_max)[nph])
    /\ touched' = touched \cup {Access("contract_h1p", "des", nph + 1, nph)}
    /\ nph' = nph + 1
    /\ UNCHANGED <<pc, prm, hopVars, c, alph, hc, hc_e, kerVars, sanVars>>

NextLower1p ==
    /\ pc = "h1p_lower"
    /\ alph < prm.nmode
    /\ nph \notin DOMAIN factors(prm.nph_max)
    /\ alph' = alph + 1 /\ nph' = 0
    /\ UNCHANGED <<pc, prm, hopVars, c, hc, hc_e, t1, touched, kerVars, sanVars>>

\* line 96: t1 = lib.dot(h1p, t1.reshape(nmode, -1)).reshape(t1.shape)
Dot1p ==
    /\ pc = "h1p_lower"
    /\ alph = prm.nmode
    /\ t1' = Mix1p(prm.h1p, t1, Shape, prm.nmode)
    /\ alph' = 0 /\ nph' = 0
    /\ pc' = "h1p_raise"
    /\ UNCHANGED <<prm, hopVars, c, hc, hc_e, touched, kerVars, sanVars>>

\* lines 98-102: one pass of the raising loop
StepRaise1p ==
    /\ pc = "h1p_raise"
    /\ alph < prm.nmode
    /\ nph \in DOMAIN factors(prm.nph_max)
    /\ hc' = Raise1p(hc, t1, Shape, alph, nph, factors(prm.nph_max)[nph])
    /\ touched' = touched \cup {Access("contract_h1p", "cre", nph, nph + 1)}
    /\ nph' = nph + 1
    /\ UNCHANGED <<pc, prm, hopVars, c, alph, hc_e, t1, kerVars, sanVars>>

NextRaise1p ==
    /\ pc = "h1p_raise"
    /\ alph < prm.nmode
    /\ nph \notin DOMAIN factors(prm.nph_max)
    /\ alph' = alph + 1 /\ nph' = 0
    /\ UNCHANGED <<pc, prm, hopVars, c, hc, hc_e, t1, touched, kerVars, sanVars>>

\* line 104: return hc.reshape(cishape)
Return1p ==
    /\ pc = "h1p_raise"
    /\ alph = prm.nmode
    /\ res' = [res EXCEPT !.h1p = hc]
    /\ pc' = "done"
    /\ UNCHANGED <<prm, v1, v2, ab, ladVars, kerVars, sanVars>>

NextLadder ==
    \/ Enter1e1p \/ Mode1e1p \/ Step1e1p \/ Done1e1p \/ Return1e1p
    \/ Enter1p \/ StepLower1p \/ NextLower1p \/ Dot1p
    \/ StepRaise1p \/ NextRaise1p \/ Return1p

SpecLadder == InitLadder /\ [][NextLadder]_vars

\* ------------------------------------------ properties of the contractors
Returned1e1p == pc \in {"contract_h1p", "h1p_lower", "h1p_raise", "done"}
Returned1p == pc = "done"

\* C3: every occupation the ladder loops read or write lies in 0..nph_max, no
\* creation contribution is read from the slice at nph_max (so nothing is
\* wrapped to another level), and with nph_max = 0 no ladder term is applied.
C3_TruncationBoundary ==
    /\ \A t \in touched :
          /\ t.src \in 0..prm.nph_max
          /\ t.dst \in 0..prm.nph_max
          /\ t.op = "cre" => t.src # prm.nph_max
    /\ prm.nph_max = 0 =>
          /\ touched = {}
          /\ Returned1e1p => res.h1e1p = TZero(Shape)
          /\ Returned1p => res.h1p = TZero(Shape)
    /\ (Returned1p /\ prm.nph_max >= 2 /\ v1 = Unit(Shape, Size(Shape) - 1)) =>
          \A i \in Flat(Shape) :
              (\E a \in 0..(prm.nmode - 1) : Occ(i, Shape, a) = 0) =>
                  res.h1e1p[i] = NZero /\ res.h1p[i] = NZero

\* C3 witness: both contractors have returned after raising into the top
\* level nph_max of the last mode, from an input with population at the top
C3_Witness ==
    /\ Returned1p /\ prm.nmode = 2 /\ prm.nph_max = 2
    /\ v1 = Unit(Shape, Size(Shape) - 1)
    /\ \E t \in touched : t.fn = "contract_h1e1p" /\ t.op = "cre"
                          /\ t.dst = prm.nph_max /\ t.mode = 1
    /\ \E t \in touched : t.fn = "contract_h1p" /\ t.op = "cre"
                          /\ t.dst = prm.nph_max /\ t.mode = 1
    /\ res.h1e1p # TZero(Shape) /\ res.h1p # TZero(Shape)

\* sum_i h[a, i] c[i, b, n...] + sum_j h[b, j] c[a, j, n...] at flat position
\* i of the composite tensor, for h = h1e1p[..., mode]: the entry of the
\* electronic one-body contraction of the phonon column that i lies in
ElecEntry(h1e1p, v, shape, nelec, mode, i) ==
    LET P == NCol(shape)
        na == shape[1]
        nb == shape[2]
        p == i % P
        a == (i \div P) \div nb
        b == (i \div P) % nb
    IN  NAdd(IF nelec[1] = 1
             THEN NSum([k \in 0..(na - 1) |->
                          NScale(h1e1p.at[<<a, k, mode>>], v[(k * nb + b) * P + p])], na)
             ELSE NZero,
             IF nelec[2] = 1
             THEN NSum([k \in 0..(nb - 1) |->
                          NScale(h1e1p.at[<<b, k, mode>>], v[(a * nb + k) * P + p])], nb)
             ELSE NZero)

\* what the claim says entry i of the result receives from the modes
Received1e1p(h1e1p, v, shape, nelec, nmode, nph_max, i) ==
    NSum([a \in 0..(nmode - 1) |->
            LET n == Occ(i, shape, a)
                st == Stride(shape, a)
            IN  NAdd(IF n < nph_max
                     THEN NMulSqrt(n + 1, ElecEntry(h1e1p, v, shape, nelec, a, i + st))
                     ELSE NZero,
                     IF n > 0
                     THEN NMulSqrt(n, ElecEntry(h1e1p, v, shape, nelec, a, i - st))
                     ELSE NZero)], nmode)

\* C10: contract_h1e1p starts from a zero accumulator and returns, at every
\* entry with occupation n of mode alpha, sqrt(n + 1) * hc_e[n + 1] (n below
\* nph_max) plus sqrt(n) * hc_e[n - 1] (n above 0), summed over the modes, with
\* hc_e the one-body contraction of the entry's own phonon column; the input
\* is left as it was.
C10_Contract1e1p ==
    /\ (pc = "h1e1p_for_alph" /\ alph = 0) => hc = TZero(Shape)
    /\ pc # "contract_h1e1p" => c = v1
    /\ Returned1e1p =>
          \A i \in Flat(Shape) :
              res.h1e1p[i] = Received1e1p(prm.h1e1p, v1, Shape, prm.nelec,
                                          prm.nmode, prm.nph_max, i)

\* C10 witness: a two-mode, two-electron result carrying a sqrt(2) amplitude
C10_Witness ==
    /\ Returned1e1p /\ prm.nmode = 2 /\ prm.nph_max = 2 /\ prm.nelec = <<1, 1>>
    /\ prm.h1e1p.at[<<0, 1, 0>>] # 0
    /\ \E i \in Flat(Shape) : res.h1e1p[i][2] # 0
    /\ \E i \in Flat(Shape) : res.h1e1p[i][1] # 0

\* ----------------------------------------------------------------- kernel
\* amplitudes of the initial guess are counted in units of noise / NoiseLevels
One == OnePerNoise * NoiseLevels

NoCi0 == <<>>
NoErr == [type |-> None, phase |-> None]

\* numpy.random.random(shape) in units of 1 / NoiseLevels: a staggered and a
\* constant array
Random1(n) == {[k \in 0..(n - 1) |-> (s + k) % NoiseLevels] : s \in 0..(NoiseLevels - 1)}
Random2(n) == {[k \in 0..(n - 1) |-> s] : s \in 0..(NoiseLevels - 1)}

\* the arguments kernel is called with: well-formed ones in every sector
\* (nmode = 0 included), and a Hubbard-Holstein chain with an h1p one row and
\* column too large, an h1e1p with a mode too few or too many, or a negative
\* electron count
KernelHams(nsite, nmode) ==
    { [h1e |-> H1eChain(nsite, 1), eri |-> EriHubbard(nsite, 2),
       h1e1p |-> H1e1p(nsite, nmode, 1, 0, TRUE), h1p |-> H1p(nmode, nmode, 2, 1, TRUE)],
      [h1e |-> H1eChain(nsite, 1), eri |-> EriHubbard(nsite, 2),
       h1e1p |-> H1e1p(nsite, nmode, 0, 0, TRUE), h1p |-> H1p(nmode, nmode, 0, 0, TRUE)] }

Malformed(nsite, nmode) ==
    { [h1e |-> H1eChain(nsite, 1), eri |-> EriHubbard(nsite, 2),
       h1e1p |-> H1e1p(nsite, nmode, 1, 0, TRUE),
       h1p |-> H1p(nmode + 1, nmode + 1, 2, 1, TRUE)],
      [h1e |-> H1eChain(nsite, 1), eri |-> EriHubbard(nsite, 2),
       h1e1p |-> H1e1p(nsite, nmode + 1, 1, 0, TRUE),
       h1p |-> H1p(nmode, nmode, 2, 1, TRUE)],
      [h1e |-> H1eChain(nsite, 1), eri |-> EriHubbard(nsite, 2),
       h1e1p |-> H1e1p(nsite, Max(nmode - 1, 0), 1, 0, TRUE),
       h1p |-> H1p(nmode, nmode, 2, 1, TRUE)] }

KernelCi0(shape) ==
    {NoCi0, Ramp(shape), [i \in 0..Size(shape) |-> NInt(i + 1)]}

KernelArgs ==
    UNION { { [nsite |-> NSite, nelec |-> g[1], nmode |-> g[2], nph_max |-> g[3],
               h1e |-> h.h1e, eri |-> h.eri, h1e1p |-> h.h1e1p, h1p |-> h.h1p,
               ci0 |-> g0, noise |-> ns, h0 |-> 1] :
              h \in KernelHams(NSite, g[2]) \cup
                    (IF g[1] = <<1, 1>> /\ g[2] >= 1
                     THEN Malformed(NSite, g[2]) ELSE {}),
              g0 \in KernelCi0(make_shape(NSite, g[1], g[2], g[3])),
              ns \in {None, "1e-6"} } :
            g \in {t \in (Sectors \cup {<<-1, 1>>}) \X (0..MaxNmode) \X (0..MaxNph) :
                     Size(make_shape(NSite, t[1], t[2], t[3])) <= MaxSize} }

Init ==
    /\ pc = "kernel"
    /\ prm \in KernelArgs
    /\ ci0 = prm.ci0
    /\ rnd = <<>>
    /\ ncall = 0
    /\ err = NoErr
    /\ ene = None
    /\ c = NoCi0 /\ hc = NoCi0
    /\ res = None
    /\ v1 = None /\ v2 = None /\ ab = None
    /\ alph = 0 /\ nph = 0 /\ hc_e = None /\ t1 = None /\ touched = {}
    /\ SanIdle

Raise(type, phase) ==
    /\ pc' = "raised"
    /\ err' = [type |-> type, phase |-> phase]

\* faulty variant: the first draw is added to every row, ci0[:, :] += r1
AddNoise_every_row(g, shape, r1, r2) ==
    LET row == shape[2] * NCol(shape)
        P == NCol(shape)
    IN  [i \in Flat(shape) |->
           NAdd(g[i],
                NInt(r1[i % row]
                     + (IF (i % row) \div P = 0
                        THEN r2[(i \div row) * P + (i % P)] ELSE 0)))]

\* ci0[0, :] += r1 ; ci0[:, 0] += r2   (r1, r2 already scaled by noise)
AddNoise(g, shape, r1, r2) ==
    LET row == shape[2] * NCol(shape)
        P == NCol(shape)
    IN  [i \in Flat(shape) |->
           NAdd(g[i],
                NInt((IF i \div row = 0 THEN r1[i] ELSE 0)
                     + (IF (i % row) \div P = 0
                        THEN r2[(i \div row) * P + (i % P)] ELSE 0)))]

\* lines 132-141, ci0 is None: zeros, the reference amplitude, the noise
BuildGuess ==
    /\ pc = "kernel"
    /\ prm.ci0 = NoCi0
    /\ LET shape == ShapeOf(prm)
           ref == [i \in Flat(shape) |-> NInt(IF i = 0 THEN One ELSE 0)]
       IN  IF Size(shape) = 0
           THEN \* ci0.__setitem__((0, 0, ...), 1.0) on an empty array
                /\ Raise("IndexError", "setup")
                /\ UNCHANGED <<ci0, rnd>>
           ELSE /\ pc' = "make_hdiag"
                /\ err' = err
                /\ IF prm.noise = None
                   THEN ci0' = ref /\ rnd' = rnd
                   ELSE \E r1 \in Random1(shape[2] * NCol(shape)),
                           r2 \in Random2(shape[1] * NCol(shape)) :
                           /\ rnd' = <<r1, r2>>
                           /\ ci0' = AddNoise(ref, shape, r1, r2)
    /\ UNCHANGED <<prm, hopVars, ladVars, ncall, ene, sanVars>>

\* lines 143-144: ci0 = ci0.reshape(shape)
ReshapeGuess ==
    /\ pc = "kernel"
    /\ prm.ci0 # NoCi0
    /\ IF Cardinality(DOMAIN prm.ci0) # Size(ShapeOf(prm))
       THEN Raise("ValueError", "setup")
       ELSE pc' = "make_hdiag" /\ err' = err
    /\ UNCHANGED <<prm, hopVars, ladVars, ci0, rnd, ncall, ene, sanVars>>

\* lines 146-159: absorb_h1e, hop, hdiag and precond are built
MakeHdiag ==
    /\ pc = "make_hdiag"
    /\ res' = make_hdiag(prm.h1e, prm.eri, prm.h1e1p, prm.h1p,
                         prm.nsite, prm.nelec, prm.nmode, prm.nph_max)
    /\ pc' = "davidson"
    /\ UNCHANGED <<prm, v1, v2, ab, ladVars, kerVars, sanVars>>

\* lib.davidson calls hop: first on ci0, then on its next trial vector
DavidsonHop ==
    /\ pc = "davidson"
    /\ ncall < MaxCycle
    /\ \E x \in IF ncall = 0 THEN {ci0}
                ELSE {Ramp(ShapeOf(prm)), Wave(ShapeOf(prm))} :
          /\ c' = x
          /\ IF hop_raises(prm.h1e1p, prm.h1p, prm.nmode) # None
             THEN /\ Raise(hop_raises(prm.h1e1p, prm.h1p, prm.nmode), "iterate")
                  /\ hc' = hc
             ELSE /\ hc' = Hop(x)
                  /\ pc' = pc /\ err' = err
    /\ ncall' = ncall + 1
    /\ UNCHANGED <<prm, hopVars, alph, nph, hc_e, t1, touched, ci0, rnd, ene, sanVars>>

\* line 165: davidson returns e and kernel returns e + h0
DavidsonReturn ==
    /\ pc = "davidson"
    /\ ncall >= 1
    /\ \E e \in {-1, 0} : ene' = e + prm.h0
    /\ pc' = "done"
    /\ UNCHANGED <<prm, hopVars, ladVars, ci0, rnd, ncall, err, sanVars>>

Next == BuildGuess \/ ReshapeGuess \/ MakeHdiag \/ DavidsonHop \/ DavidsonReturn

Spec == Init /\ [][Next]_vars

\* ------------------------------------------------- properties of kernel
WellShaped ==
    /\ prm.nelec[1] >= 0 /\ prm.nelec[2] >= 0
    /\ prm.h1p.shape = <<prm.nmode, prm.nmode>>
    /\ prm.h1e1p.shape = <<prm.nsite, prm.nsite, prm.nmode>>
    /\ prm.ci0 = NoCi0 \/ Cardinality(DOMAIN prm.ci0) = Size(ShapeOf(prm))

ZeroCoupling ==
    /\ \A pqa \in DOMAIN prm.h1e1p.at : prm.h1e1p.at[pqa] = 0
    /\ \A ij \in DOMAIN prm.h1p.at : prm.h1p.at[ij] = 0

\* C6: with nmode = 0, or with h1e1p and h1p zero, kernel runs to completion
\* and every hop call acts on each phonon column as contract_2e does.
C6_PureElectronicLimit ==
    (WellShaped /\ (prm.nmode = 0 \/ ZeroCoupling)) =>
        /\ pc # "raised"
        /\ ncall >= 1 =>
              hc = contract_h2e(absorb_h1e(prm.h1e, prm.eri, prm.nsite, prm.nelec),
                                c, prm.nsite, prm.nelec, prm.nmode, prm.nph_max)

\* C8: a malformed argument (ci0 of the wrong size, h1p not (nmode, nmode),
\* h1e1p whose last axis is not nmode, a negative electron count) is reported
\* in the setup phase, before the eigensolver calls hop.
C8_FailFast ==
    (pc = "raised" /\ ~WellShaped) => (err.phase = "setup" /\ ncall = 0)

SetUp == pc \in {"make_hdiag", "davidson", "done"}
        \/ (pc = "raised" /\ err.phase = "iterate")

ElecA(i) == i \div (ShapeOf(prm)[2] * NCol(ShapeOf(prm)))
ElecB(i) == (i \div NCol(ShapeOf(prm))) % ShapeOf(prm)[2]

\* C9 as claimed: built with noise, the guess stays zero at every entry that
\* has a mode above the two lowest occupations (the reference entry apart).
C9_NoiseOnLowOccupation ==
    (SetUp /\ prm.ci0 = NoCi0) =>
        \A i \in Flat(ShapeOf(prm)) :
            (\E a \in 0..(prm.nmode - 1) : Occ(i, ShapeOf(prm), a) >= 2) =>
                ci0[i] = NZero

\* C9 amended: without ci0 and without noise the guess is 1.0 at index
\* (0, ..., 0) and zero elsewhere; with noise, each entry is that plus the
\* draw for its place in ci0[0, :] if its alpha string is 0 plus the draw for
\* its place in ci0[:, 0] if its beta string is 0, whatever its phonon
\* occupations, so that entries with both strings nonzero stay zero; a
\* supplied ci0 is used as given.
C9_InitialGuess ==
    SetUp =>
        /\ prm.ci0 # NoCi0 => ci0 = prm.ci0
        /\ (prm.ci0 = NoCi0 /\ prm.noise = None) =>
              ci0 = [i \in Flat(ShapeOf(prm)) |-> NInt(IF i = 0 THEN One ELSE 0)]
        /\ (prm.ci0 = NoCi0 /\ prm.noise # None) =>
              \A i \in Flat(ShapeOf(prm)) :
                  /\ (ElecA(i) # 0 /\ ElecB(i) # 0) => ci0[i] = NZero
                  /\ ci0[i] = NInt((IF i = 0 THEN One ELSE 0)
                                   + (IF ElecA(i) = 0 THEN rnd[1][i] ELSE 0)
                                   + (IF ElecB(i) = 0
                                      THEN rnd[2][ElecA(i) * NCol(ShapeOf(prm))
                                                  + (i % NCol(ShapeOf(prm)))]
                                      ELSE 0))

\* C9 witness: a noisy guess with a nonzero amplitude at the top occupation
\* of both modes and a zero one where both strings are nonzero
C9_Witness ==
    /\ SetUp /\ prm.ci0 = NoCi0 /\ prm.noise # None
    /\ prm.nelec = <<1, 1>> /\ prm.nmode = 2 /\ prm.nph_max = 2
    /\ ci0[NCol(ShapeOf(prm)) - 1] # NZero
    /\ ci0[Size(ShapeOf(prm)) - 1] = NZero
    /\ ci0[0][1] > One

\* ------------------------------------------- WithPhonon._check_sanity
\* the fields the check reads; arrays are given by their shapes, vec0 by its
\* number of entries
Objects ==
    UNION { { [base |-> bs, nsite |-> NSite, nmode |-> g[1], nph_max |-> MaxNph,
               nelec |-> g[2], ene0 |-> e0, vec0 |-> vs, h1e |-> s1e, eri |-> er,
               h1p |-> s1p, h1e1p |-> s1e1p] :
              bs \in {None, "set"}, e0 \in {None, "set"}, er \in {None, "set"},
              vs \in {Size(make_shape(NSite, g[2], g[1], MaxNph)),
                      Size(make_shape(NSite, g[2], g[1], MaxNph)) + 1},
              s1e \in {<<NSite, NSite>>, <<2, NSite, NSite>>, <<NSite, NSite + 1>>,
                       <<3, NSite, NSite>>, <<NSite>>},
              s1p \in {<<g[1], g[1]>>, <<g[1], g[1] + 1>>, <<>>},
              s1e1p \in {<<NSite, NSite, g[1]>>, <<2, NSite, NSite, g[1]>>,
                         <<NSite, NSite, g[1] + 1>>, <<3, NSite, NSite, g[1]>>,
                         <<(NSite * (NSite + 1)) \div 2, g[1]>>, <<>>} } :
            g \in (1..MaxNmode) \X {<<1, 1>>, <<1, 0>>, <<-1, 1>>, <<1, -1>>} }

InitSanity ==
    /\ pc = "_check_sanity"
    /\ obj \in Objects
    /\ sane = None
    /\ prm = None
    /\ HopIdle /\ LadIdle /\ KerIdle

\* faulty variant: the shape of h1p is not asserted
check_sanity_without_h1p(o) ==
    LET shape == <<num_strings(o.nsite, o.nelec[1]), num_strings(o.nsite, o.nelec[2])>>
                 \o [k \in 1..o.nmode |-> o.nph_max + 1]
    IN  IF o.base = None THEN "AssertionError"
        ELSE IF ~(o.nelec[1] >= 0 /\ o.nelec[2] >= 0) THEN "AssertionError"
        ELSE IF o.ene0 = None THEN "AssertionError"
        ELSE IF o.vec0 # Size(shape) THEN "ValueError"
        ELSE IF Len(o.h1e) = 2 /\ o.h1e # <<o.nsite, o.nsite>> THEN "AssertionError"
        ELSE IF Len(o.h1e) = 3 /\ o.h1e # <<2, o.nsite, o.nsite>> THEN "AssertionError"
        ELSE IF o.eri = None THEN "AssertionError"
        ELSE IF Len(o.h1e1p) = 3 /\ o.h1e1p # <<o.nsite, o.nsite, o.nmode>>
             THEN "AssertionError"
        ELSE IF Len(o.h1e1p) = 4 /\ o.h1e1p # <<2, o.nsite, o.nsite, o.nmode>>
             THEN "AssertionError"
        ELSE "ok"

\* the first statement of _check_sanity that raises, or "ok"
check_sanity(o) ==
    LET shape == <<num_strings(o.nsite, o.nelec[1]), num_strings(o.nsite, o.nelec[2])>>
                 \o [k \in 1..o.nmode |-> o.nph_max + 1]
        size == Size(shape)
    IN  IF o.base = None THEN "AssertionError"
        ELSE IF ~(o.nelec[1] >= 0 /\ o.nelec[2] >= 0) THEN "AssertionError"
        ELSE IF o.ene0 = None THEN "AssertionError"
        ELSE IF o.vec0 # size THEN "ValueError"
        ELSE IF Len(o.h1e) = 2 /\ o.h1e # <<o.nsite, o.nsite>> THEN "AssertionError"
        ELSE IF Len(o.h1e) = 3 /\ o.h1e # <<2, o.nsite, o.nsite>> THEN "AssertionError"
        ELSE IF o.eri = None THEN "AssertionError"
        ELSE IF o.h1p # <<o.nmode, o.nmode>> THEN "AssertionError"
        ELSE IF Len(o.h1e1p) = 3 /\ o.h1e1p # <<o.nsite, o.nsite, o.nmode>>
             THEN "AssertionError"
        ELSE IF Len(o.h1e1p) = 4 /\ o.h1e1p # <<2, o.nsite, o.nsite, o.nmode>>
             THEN "AssertionError"
        ELSE "ok"

CheckSanity ==
    /\ pc = "_check_sanity"
    /\ sane' = check_sanity(obj)
    /\ pc' = "checked"
    /\ UNCHANGED <<prm, hopVars, ladVars, kerVars, obj>>

NextSanity == CheckSanity

SpecSanity == InitSanity /\ [][NextSanity]_vars

\* C7 as claimed: the check passes only if the counts are non-negative, ene0
\* is set, h1p is (nmode, nmode), h1e1p is (nsite, nsite, nmode) or
\* (2, nsite, nsite, nmode), h1e is (nsite, nsite) or (2, nsite, nsite) and
\* vec0 fits the composite shape; anything else is rejected.
C7_RejectsOtherShapes ==
    (pc = "checked" /\ sane = "ok") =>
        /\ obj.nelec[1] >= 0 /\ obj.nelec[2] >= 0
        /\ obj.ene0 # None
        /\ obj.h1p = <<obj.nmode, obj.nmode>>
        /\ obj.h1e1p \in {<<obj.nsite, obj.nsite, obj.nmode>>,
                          <<2, obj.nsite, obj.nsite, obj.nmode>>}
        /\ obj.h1e \in {<<obj.nsite, obj.nsite>>, <<2, obj.nsite, obj.nsite>>}
        /\ obj.vec0 = Size(make_shape(obj.nsite, obj.nelec, obj.nmode, obj.nph_max))

\* C7 amended: the check passes exactly when _base and _eri are set, the
\* counts are non-negative, ene0 is set, vec0 fits the composite shape, h1p is
\* (nmode, nmode), an h1e1p of rank 3 is (nsite, nsite, nmode) and one of rank
\* 4 is (2, nsite, nsite, nmode), an h1e of rank 2 is (nsite, nsite) and one of
\* rank 3 is (2, nsite, nsite); an h1e1p or h1e of another rank is not looked at.
C7_SanityCheck ==
    pc = "checked" =>
        (sane = "ok" <=>
            /\ obj.base # None /\ obj.eri # None /\ obj.ene0 # None
            /\ obj.nelec[1] >= 0 /\ obj.nelec[2] >= 0
            /\ obj.vec0 = Size(make_shape(obj.nsite, obj.nelec, obj.nmode, obj.nph_max))
            /\ obj.h1p = <<obj.nmode, obj.nmode>>
            /\ Len(obj.h1e1p) = 3 => obj.h1e1p = <<obj.nsite, obj.nsite, obj.nmode>>
            /\ Len(obj.h1e1p) = 4 => obj.h1e1p = <<2, obj.nsite, obj.nsite, obj.nmode>>
            /\ Len(obj.h1e) = 2 => obj.h1e = <<obj.nsite, obj.nsite>>
            /\ Len(obj.h1e) = 3 => obj.h1e = <<2, obj.nsite, obj.nsite>>)

\* C7 witness: the check has passed an object whose h1e1p has rank 2
C7_Witness ==
    /\ pc = "checked" /\ sane = "ok"
    /\ Len(obj.h1e1p) = 2
    /\ obj.h1p = <<obj.nmode, obj.nmode>>

====
